---- MODULE Spec2Model ----
(***************************************************************************)
(* Verification model of the letusinfra repository.                        *)
(*                                                                         *)
(* Part 1: the convergence engine, StateChangeConfig::wait_until_state     *)
(* (src/src/aws/internal/wait_and_refresh.rs).  One call of the function   *)
(* is modelled as a state machine whose steps are the segments of the      *)
(* async function between its suspension points (the initial sleep, the    *)
(* awaited refresh, the backoff sleep).  Time is the number of clock       *)
(* ticks elapsed since start_time; one tick stands for 15 seconds.         *)
(***************************************************************************)
EXTENDS Integers, Sequences, FiniteSets

(***************************************************************************)
(* Bounds of the model.                                                    *)
(***************************************************************************)
MaxTimeout == 7     \* largest configured timeout, in ticks
MaxDelay   == 3     \* largest configured min_delay / max_delay, in ticks
MaxChecks  == 1     \* largest configured not_found_checks
MaxIter    == 5     \* loop iterations that may start before the timeout

\* Duration::from_secs(30), the cap of one refresh attempt: 2 ticks of 15 s.
RefreshCap == 2

Min(a, b) == IF a <= b THEN a ELSE b

\* State vectors (Vec<T>) the configuration and the refresh operation use.
StateVectors ==
    { <<>>, <<"pending">>, <<"running">>,
      <<"running", "pending">>, <<"pending", "running">> }

TargetStates  == { <<>>, <<"running">>, <<"running", "pending">> }
PendingStates == { <<>>, <<"pending">> }

\* Opaque resource handles (Box<dyn Any>) a refresh may return.
Handles == { "h1", "h2" }

Timeouts  == { 0, RefreshCap, MaxTimeout }
MinDelays == { 0, 1, MaxDelay }
MaxDelays == { 1, MaxDelay }

\* The StateChangeConfig values a call is made with.
Configs ==
    [ target_state     : TargetStates,
      pending_state    : PendingStates,
      initial_delay    : { 0, 1 },
      timeout          : Timeouts,
      min_delay        : MinDelays,
      max_delay        : MaxDelays,
      not_found_checks : 0 .. MaxChecks ]

\* What awaiting the refresh future can produce:
\* Result<Option<(Box<dyn Any>, Vec<T>)>, String>.
OkSome(h, s) == [ tag |-> "OkSome", handle |-> h, state |-> s ]
OkNone       == [ tag |-> "OkNone" ]
ErrStr       == [ tag |-> "Err" ]

RefreshResults ==
    { OkSome(h, s) : h \in Handles, s \in StateVectors } \cup { OkNone, ErrStr }

\* What tokio::time::timeout(deadline, future).await produces: the future's
\* output, or Err(Elapsed) when the deadline passed first.
Completed(r) == [ tag |-> "Completed", value |-> r ]
Elapsed      == [ tag |-> "Elapsed" ]

VARIABLES
    cfg,              \* self: the StateChangeConfig
    pc,               \* position in wait_until_state
    now,              \* start_time.elapsed(), saturated at cfg.timeout
    i,                \* let mut i
    not_found_count,  \* let mut not_found_count
    current_delay,    \* let mut current_delay
    last_state,       \* let mut last_state
    last_resource,    \* let mut last_resource
    result,           \* the value returned by the call
    polls,            \* history: number of refresh invocations
    obs,              \* history: outcome of the latest refresh attempt
    absent_run,       \* history: consecutive attempts that reported "absent"
    observed_state,   \* history: state reported by the latest completed attempt
    sleeps,           \* history: the delays slept between polls, in order
    merge,            \* Part 2: one call of InstanceState::merge_diff
    schema,           \* Part 3: one call of Schema::validate_schema
    create,           \* Part 4: one call of EC2Instance::create_instance
    rpc,              \* Part 5: one Apply / Plan request to the AWS provider
    client,           \* Part 6: one grpc_plan_component / grpc_apply_component
    cmd,              \* Part 7: one run of the apply or plan command
    conv,             \* Part 8: one property value sent over the wire and back
    runner            \* Part 9: one run of the runner process

\* The variables of the convergence engine, and those of the other parts.
engineVars == << cfg, pc, now, i, not_found_count, current_delay, last_state,
                 last_resource, result, polls, obs, absent_run,
                 observed_state, sleeps >>
otherVars  == << merge, schema, create, rpc, client, cmd, conv, runner >>

vars == << cfg, pc, now, i, not_found_count, current_delay, last_state,
           last_resource, result, polls, obs, absent_run, observed_state,
           sleeps, merge, schema, create, rpc, client, cmd, conv, runner >>

\* The value of the variable of a part that takes no part in a specification.
Idle == [ tag |-> "Idle" ]

\* s.to_string() of a state token (T = String: the token itself).
to_string(t) == t

\* iter().map(|s| s.to_string()).collect::<Vec<_>>()
Strings(v) == [ k \in 1 .. Len(v) |-> to_string(v[k]) ]

\* Vec<String>::join(sep)
RECURSIVE Join(_, _)
Join(v, sep) ==
    IF Len(v) = 0 THEN ""
    ELSE IF Len(v) = 1 THEN v[1]
    ELSE v[1] \o sep \o Join(Tail(v), sep)

\* elapsed time after d more ticks.  The code reads the clock only in
\* `elapsed() >= timeout` and `timeout.saturating_sub(elapsed())`, which both
\* depend on min(elapsed, timeout) alone, so the clock is kept saturated.
Advance(t, d) == Min(t + d, cfg.timeout)


\* Duration::saturating_sub
saturating_sub(a, b) == IF a >= b THEN a - b ELSE 0

\* Box::new(()), the handle returned when the awaited absence is observed.
Unit == "()"

\* The values wait_until_state returns: Result<Box<dyn Any>, WaitError>.
Ok(h) == [ tag |-> "Ok", value |-> h ]
Timeout(ls, t, es) ==
    [ tag |-> "Timeout", last_state |-> ls, timeout |-> t, expected_states |-> es ]
NotFound(n) == [ tag |-> "NotFound", retries |-> n ]
UnexpectedState(cs, es) ==
    [ tag |-> "UnexpectedState", current_state |-> cs, expected_states |-> es ]
RefreshError(msg) == [ tag |-> "RefreshError", message |-> msg ]
Running == [ tag |-> "Running" ]

\* The timeout check left out.
TimedOut_Never(elapsed, timeout) == FALSE

\* line 95: start_time.elapsed() >= self.timeout
TimedOut(elapsed, timeout) == elapsed >= timeout

\* line 106: remaining_time.min(Duration::from_secs(30))
AttemptDeadline(remaining_time) == Min(remaining_time, RefreshCap)

\* line 110: .unwrap_or(Ok(None)) applied to the Result of timeout(..).await
unwrap_or(timed, default) ==
    IF timed.tag = "Completed" THEN timed.value ELSE default

\* Every target token occurs in the observed vector (a per-token match).
IsTarget_ContainsTokens(target_state, current_state) ==
    \A k \in 1 .. Len(target_state) :
        \E j \in 1 .. Len(current_state) : current_state[j] = target_state[k]

\* An empty target matched by every observed vector.
IsTarget_EmptyMatchesAll(target_state, current_state) ==
    target_state = <<>> \/ target_state = current_state

\* line 144: self.target_state == current_state
IsTarget(target_state, current_state) == target_state = current_state

\* The is_empty() test left out.
IsUnexpected_NoEmptyCheck(pending_state, current_state) ==
    pending_state # current_state

\* line 149: self.pending_state != current_state && !self.pending_state.is_empty()
IsUnexpected(pending_state, current_state) ==
    pending_state # current_state /\ pending_state # <<>>

\* line 133: not_found_count > self.not_found_checks
NotFoundExceeded(count, checks) == count > checks

\* The doubled delay not capped at max_delay.
NextDelay_Uncapped(iter, delay, max_delay) ==
    IF iter % 3 = 2 THEN delay * 2 ELSE delay

\* The delay doubled after every iteration.
NextDelay_EveryIteration(iter, delay, max_delay) == Min(delay * 2, max_delay)

\* lines 169-171: the delay after the sleep of iteration iter
NextDelay(iter, delay, max_delay) ==
    IF iter % 3 = 2 THEN Min(delay * 2, max_delay) ELSE delay

\* lines 156-161: target_state.iter().chain(pending_state.iter()).map(to_string)
ExpectedStates(target_state, pending_state) ==
    Strings(target_state) \o Strings(pending_state)

EngineInit ==
    /\ cfg \in Configs
    /\ pc = "start"
    /\ now = 0
    /\ i = 0
    /\ not_found_count = 0
    /\ current_delay = cfg.min_delay
    /\ last_state = ""
    /\ last_resource = "None"
    /\ result = Running
    /\ polls = 0
    /\ obs = [ tag |-> "None" ]
    /\ absent_run = 0
    /\ observed_state = ""
    /\ sleeps = <<>>

Init ==
    /\ EngineInit
    /\ merge = Idle /\ schema = Idle /\ create = Idle
    /\ rpc = Idle /\ client = Idle /\ cmd = Idle
    /\ conv = Idle /\ runner = Idle

\* lines 80-90: the locals are initialised (Init) and initial_delay is slept.
Start ==
    /\ pc = "start"
    /\ now' = IF cfg.initial_delay > 0 THEN Advance(now, cfg.initial_delay) ELSE now
    /\ pc' = "loop"
    /\ UNCHANGED << cfg, i, not_found_count, current_delay, last_state,
                    last_resource, result, polls, obs, absent_run,
                    observed_state, sleeps >>
    /\ UNCHANGED otherVars

\* lines 92-101: the head of a loop iteration.
LoopCheck ==
    /\ pc = "loop"
    /\ TimedOut(now, cfg.timeout) \/ i < MaxIter
    /\ i' = i + 1
    /\ IF TimedOut(now, cfg.timeout)
       THEN /\ result' = Timeout(last_state, cfg.timeout, Strings(cfg.target_state))
            /\ pc' = "done"
       ELSE /\ result' = result
            /\ pc' = "refresh"
    /\ UNCHANGED << cfg, now, not_found_count, current_delay, last_state,
                    last_resource, polls, obs, absent_run, observed_state,
                    sleeps >>
    /\ UNCHANGED otherVars

\* The empty-target test left out.
WaitingForAbsence_Never(target_state) == FALSE

\* line 127: self.target_state.is_empty()
WaitingForAbsence(target_state) == target_state = <<>>

\* The handle of the first poll kept for good.
Retain_First(previous, resource) ==
    IF previous = "None" THEN resource ELSE previous

\* line 141: last_resource = resource, for a resource that was found.
Retain(previous, resource) == resource

\* lines 113-114 and 118-164, for a refresh_result rr that is Ok: the values
\* of << pc, result, last_state, not_found_count, last_resource >> afterwards.
ObserveOk(rr) ==
    LET resource      == IF rr.tag = "OkSome" THEN rr.handle ELSE "None"
        current_state == IF rr.tag = "OkSome" THEN rr.state ELSE <<>>
        ls            == Join(Strings(current_state), "\n")
        retained      == Retain(last_resource, resource)
    IN IF resource = "None"
       THEN IF WaitingForAbsence(cfg.target_state)
            THEN << "done", Ok(Unit), ls, not_found_count, last_resource >>
            ELSE IF NotFoundExceeded(not_found_count + 1, cfg.not_found_checks)
                 THEN << "done", NotFound(not_found_count + 1), ls,
                         not_found_count + 1, last_resource >>
                 ELSE << "sleep", result, ls, not_found_count + 1,
                         last_resource >>
       ELSE IF IsTarget(cfg.target_state, current_state)
            THEN << "done", Ok(retained), ls, 0, retained >>
            ELSE IF IsUnexpected(cfg.pending_state, current_state)
                 THEN << "done",
                         UnexpectedState(
                             Join(Strings(current_state), "\n"),
                             ExpectedStates(cfg.target_state, cfg.pending_state)),
                         ls, 0, retained >>
                 ELSE << "sleep", result, ls, 0, retained >>

\* A refresh error handled like a missing resource.
Observe_ErrAsAbsent(rr) == ObserveOk(IF rr.tag = "Err" THEN OkNone ELSE rr)

\* lines 112-164: the match on refresh_result and the rest of the loop body.
Observe(rr) ==
    IF rr.tag = "Err"
    THEN << "done", RefreshError("Refresh timeout"), last_state,
            not_found_count, last_resource >>
    ELSE ObserveOk(rr)

\* lines 103-164: one refresh attempt under its deadline, and what the loop
\* body does with its outcome, up to the return or the backoff sleep.
Refresh ==
    /\ pc = "refresh"
    /\ LET remaining_time == saturating_sub(cfg.timeout, now)
           deadline       == AttemptDeadline(remaining_time)
       IN \E timed \in { Completed(r) : r \in RefreshResults } \cup { Elapsed } :
          \E d \in 0 .. deadline :
            /\ timed = Elapsed => d = deadline
            /\ LET next == Observe(unwrap_or(timed, OkNone))
               IN /\ pc' = next[1]
                  /\ result' = next[2]
                  /\ last_state' = next[3]
                  /\ not_found_count' = next[4]
                  /\ last_resource' = next[5]
            /\ now' = Advance(now, d)
            /\ obs' = timed
            /\ absent_run' = IF timed = Completed(OkNone) THEN absent_run + 1 ELSE 0
            /\ observed_state' =
                   IF timed.tag = "Completed" /\ timed.value.tag = "OkSome"
                   THEN Join(Strings(timed.value.state), "\n")
                   ELSE IF timed = Completed(OkNone) THEN "" ELSE observed_state
    /\ polls' = polls + 1
    /\ UNCHANGED << cfg, i, current_delay, sleeps >>
    /\ UNCHANGED otherVars

\* lines 166-171: the backoff sleep and the update of the delay.
Sleep ==
    /\ pc = "sleep"
    /\ now' = Advance(now, current_delay)
    /\ sleeps' = Append(sleeps, current_delay)
    /\ current_delay' = NextDelay(i, current_delay, cfg.max_delay)
    /\ pc' = "loop"
    /\ UNCHANGED << cfg, i, not_found_count, last_state, last_resource,
                    result, polls, obs, absent_run, observed_state >>
    /\ UNCHANGED otherVars

\* The clock advances while the call is suspended or waiting to be polled.
Tick ==
    /\ pc # "done"
    /\ now < cfg.timeout
    /\ now' = now + 1
    /\ UNCHANGED << cfg, pc, i, not_found_count, current_delay, last_state,
                    last_resource, result, polls, obs, absent_run,
                    observed_state, sleeps >>
    /\ UNCHANGED otherVars

Next == Start \/ LoopCheck \/ Refresh \/ Sleep \/ Tick

Spec == Init /\ [][Next]_vars

TypeOK ==
    /\ pc \in { "start", "loop", "refresh", "sleep", "done" }
    /\ now \in 0 .. cfg.timeout
    /\ i \in 0 .. MaxIter + 1
    /\ not_found_count \in 0 .. MaxChecks + 1

\* The calls whose termination is checked: no initial delay, and a target of
\* at most one token (the refresh operation still reports every vector).
LiveInit == Init /\ cfg.initial_delay = 0 /\ Len(cfg.target_state) <= 1

\* The runtime polls the task whenever it is woken, its timers fire, and the
\* clock advances.
LiveSpec ==
    /\ LiveInit /\ [][Next]_vars
    /\ WF_vars(Start) /\ WF_vars(LoopCheck) /\ WF_vars(Refresh)
    /\ WF_vars(Sleep) /\ WF_vars(Tick)

(***************************************************************************)
(* Properties of wait_until_state.                                         *)
(***************************************************************************)
Done == pc = "done"

\* The latest refresh attempt reported a present resource / no resource /
\* failed / did not complete within its deadline.
Present  == obs.tag = "Completed" /\ obs.value.tag = "OkSome"
Absent   == obs = Completed(OkNone)
Failed   == obs = Completed(ErrStr)
Overdue  == obs = Elapsed

Converged       == Done /\ result.tag = "Ok" /\ result.value \in Handles
AbsentConverged == Done /\ result = Ok(Unit)

\* C1: the call returns converged, with the handle of that observation, if and
\* only if the latest refresh reported a present resource whose state vector
\* equals target_state as a whole (same length, tokens and order); it then
\* returns in the same iteration.
C1_ConvergedIffTargetVector ==
    /\ Converged =>
         /\ Present
         /\ Len(obs.value.state) = Len(cfg.target_state)
         /\ \A k \in 1 .. Len(cfg.target_state) :
                obs.value.state[k] = cfg.target_state[k]
         /\ result.value = obs.value.handle
    /\ (Present /\ obs.value.state = cfg.target_state) => Converged /\ i = polls

C1_Witness ==
    /\ Converged
    /\ cfg.target_state = <<"running", "pending">>
    /\ result.value = "h2"
    /\ polls > 1

\* C2: with a non-empty target_state the call fails with NotFound exactly
\* when the number of consecutive "resource absent" reports reaches
\* not_found_checks + 1, which it reports as retries; a present observation
\* resets the count to zero.
C2_NotFoundAtThreshold ==
    cfg.target_state # <<>> =>
        /\ Present => not_found_count = 0
        /\ result.tag = "NotFound" <=> absent_run = cfg.not_found_checks + 1
        /\ result.tag = "NotFound" => result.retries = cfg.not_found_checks + 1

\* C3: with an empty target_state the first refresh that reports the resource
\* absent returns success with the unit handle in that iteration, whatever
\* not_found_checks is, and the not-found counter is never incremented.
C3_AbsentTargetConverges ==
    cfg.target_state = <<>> =>
        /\ not_found_count = 0
        /\ result.tag # "NotFound"
        /\ Absent => AbsentConverged /\ i = polls /\ absent_run = 1

C3_Witness ==
    /\ cfg.target_state = <<>>
    /\ cfg.not_found_checks = 0
    /\ Absent
    /\ AbsentConverged
    /\ polls > 1

\* C4: a refresh attempt that does not complete within its deadline makes the
\* call return RefreshError; it is not counted as "resource absent".
C4_OverdueIsRefreshError ==
    Overdue => Done /\ result.tag = "RefreshError" /\ i = polls

\* C5: the call fails with UnexpectedState exactly when the latest refresh
\* reported a present resource whose vector differs from target_state and
\* from a non-empty pending_state; the error carries the observed state and
\* the target tokens followed by the pending tokens.  An observation equal to
\* pending_state, or made with an empty pending_state, fails nothing.
C5_UnexpectedState ==
    LET unexpected ==
            /\ Present
            /\ obs.value.state # cfg.target_state
            /\ cfg.pending_state # <<>>
            /\ obs.value.state # cfg.pending_state
    IN /\ result.tag = "UnexpectedState" <=> unexpected
       /\ result.tag = "UnexpectedState" =>
            /\ Done /\ i = polls
            /\ result.current_state = observed_state
            /\ Len(result.expected_states) =
                   Len(cfg.target_state) + Len(cfg.pending_state)
            /\ \A k \in 1 .. Len(cfg.target_state) :
                   result.expected_states[k] = cfg.target_state[k]
            /\ \A k \in 1 .. Len(cfg.pending_state) :
                   result.expected_states[Len(cfg.target_state) + k]
                       = cfg.pending_state[k]
       /\ ( /\ Present
            /\ obs.value.state # cfg.target_state
            /\ (cfg.pending_state = <<>> \/ obs.value.state = cfg.pending_state) )
          => result.tag \in { "Running", "Timeout" }

C5_Witness ==
    /\ result.tag = "UnexpectedState"
    /\ result.current_state = "pending\nrunning"
    /\ result.expected_states = <<"running", "pending", "pending">>
    /\ polls > 1

\* C6: an iteration that starts with elapsed >= timeout returns Timeout with
\* the configured timeout, the target states and the state of the most recent
\* observation, without invoking the refresh operation; with timeout = 0 the
\* refresh operation is never invoked.
C6_TimeoutCarriesLastObservation ==
    /\ result.tag = "Timeout" =>
         /\ Done
         /\ polls = i - 1
         /\ result.timeout = cfg.timeout
         /\ result.expected_states = cfg.target_state
         /\ result.last_state = observed_state
    /\ (pc = "loop" /\ now >= cfg.timeout) => polls = i
    /\ cfg.timeout = 0 => polls = 0

\* C7 as stated: for every min_delay and max_delay, every delay slept between
\* two polls is at least min_delay and at most max_delay.
C7_DelayWithinBoundsAnyConfig ==
    \A k \in 1 .. Len(sleeps) :
        cfg.min_delay <= sleeps[k] /\ sleeps[k] <= cfg.max_delay

\* C7 amended: when min_delay <= max_delay, every delay slept between two
\* polls is at least min_delay and at most max_delay.
C7_DelayWithinBounds ==
    cfg.min_delay <= cfg.max_delay =>
        /\ \A k \in 1 .. Len(sleeps) :
               cfg.min_delay <= sleeps[k] /\ sleeps[k] <= cfg.max_delay
        /\ cfg.min_delay <= current_delay /\ current_delay <= cfg.max_delay

C7_Witness ==
    /\ cfg.min_delay < cfg.max_delay
    /\ Len(sleeps) >= 5
    /\ sleeps[1] = cfg.min_delay
    /\ sleeps[3] > sleeps[1]
    /\ current_delay = cfg.max_delay

\* the delay d after n re-evaluations
RECURSIVE DelayAfter(_, _, _)
DelayAfter(d, n, max_delay) ==
    IF n = 0 THEN d ELSE DelayAfter(Min(2 * d, max_delay), n - 1, max_delay)

\* C8: the delay starts at min_delay and is re-evaluated to
\* min(2 x delay, max_delay) after iterations 2, 5, 8, ... only, so the delay
\* slept in iteration k is min_delay after k div 3 re-evaluations and the
\* delay never increases on two consecutive polls.
C8_BackoffEveryThirdIteration ==
    /\ \A k \in 1 .. Len(sleeps) :
           sleeps[k] = DelayAfter(cfg.min_delay, k \div 3, cfg.max_delay)
    /\ current_delay =
           DelayAfter(cfg.min_delay, (Len(sleeps) + 1) \div 3, cfg.max_delay)
    /\ \A k \in 1 .. Len(sleeps) - 1 : sleeps[k + 1] # sleeps[k] => k % 3 = 2
    /\ \A k \in 1 .. Len(sleeps) - 2 :
           ~ (sleeps[k] < sleeps[k + 1] /\ sleeps[k + 1] < sleeps[k + 2])

C8_Witness ==
    /\ Len(sleeps) = 5
    /\ sleeps[2] = 1 /\ sleeps[3] = 2 /\ sleeps[5] = 2
    /\ current_delay = 3

Outcomes ==
    { "Ok", "Timeout", "NotFound", "UnexpectedState", "RefreshError" }

\* C9: every call eventually returns one of converged, absent-converged,
\* Timeout, NotFound, UnexpectedState or RefreshError, whatever the refresh
\* operation does, provided the clock advances.
C9_EventuallyReturns == <>(Done /\ result.tag \in Outcomes)

C9_Witness ==
    /\ Done
    /\ result.tag = "Timeout"
    /\ cfg.timeout = MaxTimeout
    /\ polls >= 3
    /\ Present
    /\ obs.value.state = cfg.pending_state

\* C10: a refresh that returns an error makes the call return RefreshError in
\* that iteration, without a further sleep or poll, whatever the not-found
\* counter and the target and pending states are.
C10_RefreshErrorReturned ==
    Failed =>
        /\ Done
        /\ result.tag = "RefreshError"
        /\ i = polls
        /\ Len(sleeps) = polls - 1

C10_Witness ==
    /\ Failed
    /\ Done
    /\ not_found_count > 0
    /\ polls > 1

\* ---------------------------------------------------------------------------
\* Part 2. InstanceState::merge_diff
\* (src/crates/plugin-sdk/src/schema/instance_state.rs, instance_diff.rs)
\* ---------------------------------------------------------------------------

\* Attribute paths, in the order a BTreeMap<String, _> iterates them.
KeyOrder == << "a", "b" >>
AttrKeys == { KeyOrder[n] : n \in DOMAIN KeyOrder }
AttrValues == { "v1", "v2" }

\* The placeholder written for a value that is not known yet.  Its text is
\* defined in utils/constants.rs of plugin-sdk; only its identity matters here.
YAMLET_UNKNOWN_VARIABLE_VALUE == "<yamlet-unknown>"

\* HashMap<String, String> / BTreeMap<String, _>: functions on a set of keys.
MapsTo(keys, values) == UNION { [d -> values] : d \in SUBSET keys }
EmptyMap == [ k \in {} |-> "" ]
Insert(m, k, v) == [ x \in (DOMAIN m) \cup {k} |-> IF x = k THEN v ELSE m[x] ]
Remove_Clear(m, k) == EmptyMap
Remove(m, k) == [ x \in (DOMAIN m) \ {k} |-> m[x] ]
Iter(m) == SelectSeq(KeyOrder, LAMBDA k : k \in DOMAIN m)

Identities == { EmptyMap, [ k \in {"arn"} |-> "r1" ] }

\* struct InstanceState and InstanceState::new().
InstanceStates ==
    [ id : {"", "i-1"}, attributes : MapsTo(AttrKeys, AttrValues),
      identity : Identities ]
InstanceState_new == [ id |-> "", attributes |-> EmptyMap, identity |-> EmptyMap ]

\* struct ResourceAttrDiff: the three fields merge_diff reads.
ResourceAttrDiffs ==
    [ new : AttrValues, new_computed : BOOLEAN, new_removed : BOOLEAN ]

\* struct InstanceDiff and InstanceDiff::new().
InstanceDiffs ==
    [ attributes : MapsTo(AttrKeys, ResourceAttrDiffs), destroy : BOOLEAN,
      identity : Identities ]
InstanceDiff_new == [ attributes |-> EmptyMap, destroy |-> FALSE, identity |-> EmptyMap ]

\* line 63: let mut result = self.clone().
Clone_New(self) == InstanceState_new
Clone(self) == self

\* lines 65-67: every attribute of self is inserted into result again.
RECURSIVE Reinsert(_, _, _)
Reinsert(attrs, own, keys) ==
    IF keys = <<>> THEN attrs
    ELSE Reinsert(Insert(attrs, Head(keys), own[Head(keys)]), own, Tail(keys))

\* lines 70-80: the body of the loop over the diff, for one entry (k, v).
\* A key that is already present is removed rather than overwritten.
ApplyAttrDiff_Toggle(attrs, k, v) ==
    IF v.new_removed \/ k \in DOMAIN attrs THEN Remove(attrs, k)
    ELSE IF v.new_computed THEN Insert(attrs, k, YAMLET_UNKNOWN_VARIABLE_VALUE)
    ELSE Insert(attrs, k, v.new)

ApplyAttrDiff_ComputedFirst(attrs, k, v) ==
    IF v.new_computed THEN Insert(attrs, k, YAMLET_UNKNOWN_VARIABLE_VALUE)
    ELSE IF v.new_removed THEN Remove(attrs, k)
    ELSE Insert(attrs, k, v.new)
ApplyAttrDiff(attrs, k, v) ==
    IF v.new_removed THEN Remove(attrs, k)
    ELSE IF v.new_computed THEN Insert(attrs, k, YAMLET_UNKNOWN_VARIABLE_VALUE)
    ELSE Insert(attrs, k, v.new)

\* lines 69-81: the loop over diff.attributes(), in key order.
RECURSIVE ApplyDiff(_, _, _)
ApplyDiff(attrs, entries, keys) ==
    IF keys = <<>> THEN attrs
    ELSE ApplyDiff(ApplyAttrDiff(attrs, Head(keys), entries[Head(keys)]),
                   entries, Tail(keys))

\* The identity of the diff written into the result.
merge_diff_TakeIdentity(self, diff) ==
    [ self EXCEPT
        !.attributes = ApplyDiff(self.attributes, diff.attributes,
                                 Iter(diff.attributes)),
        !.identity = diff.identity ]

\* lines 62-84.
merge_diff(self, diff) ==
    LET cloned == Clone(self)
        again  == Reinsert(cloned.attributes, self.attributes, Iter(self.attributes))
    IN  [ cloned EXCEPT
            !.attributes = ApplyDiff(again, diff.attributes, Iter(diff.attributes)) ]

\* One call: the caller holds a state and a diff, and merges them.  before_self
\* and before_diff record the arguments as they were when the call was made.
MergeInit ==
    /\ \E s \in InstanceStates, d \in InstanceDiffs :
           merge = [ pc |-> "call", self |-> s, diff |-> d,
                     before_self |-> s, before_diff |-> d,
                     result |-> InstanceState_new,
                     again |-> InstanceState_new ]
    /\ cfg = Idle /\ pc = "idle" /\ now = 0 /\ i = 0 /\ not_found_count = 0
    /\ current_delay = 0 /\ last_state = "" /\ last_resource = Idle
    /\ result = Idle /\ polls = 0 /\ obs = Idle /\ absent_run = 0
    /\ observed_state = "" /\ sleeps = <<>>
    /\ schema = Idle /\ create = Idle /\ rpc = Idle /\ client = Idle /\ cmd = Idle
    /\ conv = Idle /\ runner = Idle

\* merge_diff borrows self and diff immutably (&self, &InstanceDiff).
MergeDiff ==
    /\ merge.pc = "call"
    /\ merge' = [ merge EXCEPT !.pc = "returned",
                               !.result = merge_diff(merge.self, merge.diff) ]
    /\ UNCHANGED << engineVars, schema, create, rpc, client, cmd, conv, runner >>

\* The caller merges the same diff into the state it got back.
MergeDiffAgain ==
    /\ merge.pc = "returned"
    /\ merge' = [ merge EXCEPT !.pc = "merged_again",
                               !.again = merge_diff(merge.result, merge.diff) ]
    /\ UNCHANGED << engineVars, schema, create, rpc, client, cmd, conv, runner >>

MergeNext == MergeDiff \/ MergeDiffAgain

MergeSpec == MergeInit /\ [][MergeNext]_vars

Merged == merge.pc \in {"returned", "merged_again"}

\* C11: for every key k of the diff D, the result of merge_diff(S, D) has no
\* key k when D[k].new_removed; otherwise holds the unknown-value sentinel at k
\* when D[k].new_computed; otherwise holds D[k].new at k.
C11_MergePrecedence ==
    Merged =>
        \A k \in DOMAIN merge.diff.attributes :
            LET v == merge.diff.attributes[k]
                r == merge.result.attributes
            IN  IF v.new_removed THEN k \notin DOMAIN r
                ELSE /\ k \in DOMAIN r
                     /\ r[k] = IF v.new_computed
                               THEN YAMLET_UNKNOWN_VARIABLE_VALUE
                               ELSE v.new

C11_Witness ==
    /\ Merged
    /\ DOMAIN merge.self.attributes = AttrKeys
    /\ DOMAIN merge.diff.attributes = AttrKeys
    /\ merge.diff.attributes["a"].new_removed
    /\ merge.diff.attributes["a"].new_computed
    /\ ~merge.diff.attributes["b"].new_removed
    /\ merge.diff.attributes["b"].new_computed

\* C12: merging a diff with no attribute entries yields a state equal to S in
\* id, attributes and identity.
C12_EmptyDiffIsIdentity ==
    (Merged /\ DOMAIN merge.diff.attributes = {}) =>
        /\ merge.result.id = merge.self.id
        /\ merge.result.attributes = merge.self.attributes
        /\ merge.result.identity = merge.self.identity

C12_Witness ==
    /\ Merged
    /\ merge.diff = InstanceDiff_new
    /\ merge.self.id = "i-1"
    /\ DOMAIN merge.self.attributes = AttrKeys
    /\ merge.self.identity # EmptyMap

\* C13: merge_diff leaves S and D as they were; every key of S that is not a
\* key of D has its value of S in the result; and the result has no key that
\* is a key of neither S nor D.
C13_MergeFrame ==
    Merged =>
        /\ merge.self = merge.before_self
        /\ merge.diff = merge.before_diff
        /\ \A k \in (DOMAIN merge.self.attributes) \ (DOMAIN merge.diff.attributes) :
               /\ k \in DOMAIN merge.result.attributes
               /\ merge.result.attributes[k] = merge.self.attributes[k]
        /\ (DOMAIN merge.result.attributes) \subseteq
               ((DOMAIN merge.self.attributes) \cup (DOMAIN merge.diff.attributes))

C13_Witness ==
    /\ Merged
    /\ DOMAIN merge.self.attributes = {"a"}
    /\ DOMAIN merge.diff.attributes = {"b"}
    /\ merge.diff.attributes["b"].new_removed
    /\ merge.result.attributes = merge.self.attributes

\* ---------------------------------------------------------------------------
\* Part 3. Schema::validate_schema
\* (src/crates/plugin-sdk/src/schema/schema.rs)
\* ---------------------------------------------------------------------------

\* The longest list elem of the schemas that are validated.
MaxItems == 2

\* enum ValueType, and SchemaElem::type_name() of the variants without children.
ValueTypes == { "TypeString", "TypeInt", "TypeFloat", "TypeBool", "TypeList",
                "TypeObject" }
ScalarElems == { "string", "int", "float", "bool", "null" }

\* struct Schema, reduced to value_type and elem.  An elem is named by its
\* type_name(); a list elem carries its items, an object elem its fields.
Leaf(t, k) == [ value_type |-> t, elem |-> [ kind |-> k ] ]
ListOf(t, items) == [ value_type |-> t, elem |-> [ kind |-> "list", items |-> items ] ]
ObjectOf(t, fields) == [ value_type |-> t, elem |-> [ kind |-> "object", fields |-> fields ] ]

SeqsUpTo(S, n) == UNION { [ 1..m -> S ] : m \in 0..n }
Containers(types, children) ==
    { ListOf(t, items) : t \in types, items \in SeqsUpTo(children, MaxItems) }
    \cup { ObjectOf(t, fields) : t \in types, fields \in MapsTo(AttrKeys, children) }

\* The schemas that are validated: every leaf; every list and object of leaves;
\* and lists and objects whose children are themselves lists and objects.
Leaves == { Leaf(t, k) : t \in ValueTypes, k \in ScalarElems }
NestedLeaves ==
    { Leaf(t, "null") : t \in ValueTypes }
    \cup { Leaf("TypeString", "string"), Leaf("TypeInt", "int"),
           Leaf("TypeFloat", "float"), Leaf("TypeBool", "bool") }
DeepLeaves == { Leaf("TypeString", "string"), Leaf("TypeInt", "string") }
Inner ==
    { ListOf("TypeList", items) : items \in SeqsUpTo(DeepLeaves, MaxItems) }
    \cup { ObjectOf("TypeObject", fields) : fields \in MapsTo(AttrKeys, DeepLeaves) }
Schemas ==
    Leaves
    \cup Containers({ "TypeList", "TypeObject", "TypeString" }, NestedLeaves)
    \cup Containers({ "TypeList", "TypeObject" },
                    DeepLeaves \cup { Leaf("TypeObject", "null") } \cup Inner)

\* SchemaResult, with the paths of the nodes that were examined, in order.
SchemaOk(examined) == [ tag |-> "Ok", examined |-> examined ]
TypeMismatch(msg, examined) ==
    [ tag |-> "Err", error |-> "TypeMismatch", msg |-> msg, examined |-> examined ]
Unreachable(examined) == [ tag |-> "Panic", examined |-> examined ]

\* format!("{:?}", &str) and format!("{}", usize).
Debug(str) == "\"" \o str \o "\""
Display(n) == << "0", "1", "2", "3", "4", "5", "6", "7", "8", "9" >>[n + 1]

\* The outer and inner match of lines 338-399: does elem have the variant that
\* the arm of value_type accepts?
Agrees_NullAccepted(value_type, elem) ==
    \/ elem.kind = "null"
    \/ value_type = "TypeString" /\ elem.kind = "string"
    \/ value_type = "TypeInt" /\ elem.kind = "int"
    \/ value_type = "TypeFloat" /\ elem.kind = "float"
    \/ value_type = "TypeBool" /\ elem.kind = "bool"
    \/ value_type = "TypeList" /\ elem.kind = "list"
    \/ value_type = "TypeObject" /\ elem.kind = "object"
Agrees(value_type, elem) ==
    CASE value_type = "TypeString" -> elem.kind = "string"
      [] value_type = "TypeInt"    -> elem.kind = "int"
      [] value_type = "TypeFloat"  -> elem.kind = "float"
      [] value_type = "TypeBool"   -> elem.kind = "bool"
      [] value_type = "TypeList"   -> elem.kind = "list"
      [] value_type = "TypeObject" -> elem.kind = "object"

\* The text of the TypeMismatch of each arm (lines 341-345, 349-353, 357-361,
\* 365-369, 378-382, 395-398).
MismatchMessage(value_type, elem, path) ==
    CASE value_type = "TypeString" ->
            "Expected string type but found " \o Debug(elem.kind) \o " for " \o path
      [] value_type = "TypeInt" ->
            "Expected int type but found " \o Debug(elem.kind) \o " for " \o path
      [] value_type = "TypeFloat" ->
            "Expected float type but found " \o Debug(elem.kind) \o " for " \o path
      [] value_type = "TypeBool" ->
            "Expected bool type but found " \o Debug(elem.kind) \o " for " \o path
      [] value_type = "TypeList" ->
            "Expected list type but found " \o Debug(elem.kind) \o " for " \o path
      [] value_type = "TypeObject" ->
            "Expected object type but found " \o Debug(elem.kind)

\* The ? operator after a nested call: an error returns at once, otherwise the
\* rest of the function runs.
Question_LastError(r, rest) ==
    IF rest.tag # "Ok" THEN [ rest EXCEPT !.examined = r.examined \o @ ]
    ELSE [ r EXCEPT !.examined = @ \o rest.examined ]
Question(r, rest) ==
    IF r.tag # "Ok" THEN r
    ELSE [ rest EXCEPT !.examined = r.examined \o @ ]

RECURSIVE validate_value_type(_, _)
RECURSIVE ValidateItems(_, _, _)
RECURSIVE ValidateFields(_, _, _)

\* lines 373-376: for (i, schema) in schemas.iter().enumerate(), from index n.
ValidateItems(schemas, path, n) ==
    IF n >= Len(schemas) THEN SchemaOk(<<>>)
    ELSE Question(validate_value_type(schemas[n + 1], path \o "." \o Display(n)),
                  ValidateItems(schemas, path, n + 1))

\* lines 387-392: for (key, schema) in map, over the keys that are left.
ValidateFields(map, path, keys) ==
    IF keys = <<>> THEN SchemaOk(<<>>)
    ELSE Question(validate_value_type(map[Head(keys)], path \o "." \o Head(keys)),
                  ValidateFields(map, path, Tail(keys)))

\* lines 337-403.
validate_value_type(self, path) ==
    IF ~Agrees(self.value_type, self.elem)
    THEN TypeMismatch(MismatchMessage(self.value_type, self.elem, path), << path >>)
    ELSE IF self.value_type = "TypeList"
    THEN Question(SchemaOk(<< path >>), ValidateItems(self.elem.items, path, 0))
    ELSE IF self.value_type = "TypeObject"
    THEN IF self.elem.kind = "object"
         THEN Question(SchemaOk(<< path >>),
                       ValidateFields(self.elem.fields, path, Iter(self.elem.fields)))
         ELSE Unreachable(<< path >>)
    ELSE SchemaOk(<< path >>)

\* lines 331-335.
validate_schema(self) == Question(validate_value_type(self, ""), SchemaOk(<<>>))

SchemaInit ==
    /\ \E s \in Schemas :
           schema = [ pc |-> "call", self |-> s, result |-> SchemaOk(<<>>) ]
    /\ cfg = Idle /\ pc = "idle" /\ now = 0 /\ i = 0 /\ not_found_count = 0
    /\ current_delay = 0 /\ last_state = "" /\ last_resource = Idle
    /\ result = Idle /\ polls = 0 /\ obs = Idle /\ absent_run = 0
    /\ observed_state = "" /\ sleeps = <<>>
    /\ merge = Idle /\ create = Idle /\ rpc = Idle /\ client = Idle /\ cmd = Idle
    /\ conv = Idle /\ runner = Idle

ValidateSchema ==
    /\ schema.pc = "call"
    /\ schema' = [ schema EXCEPT !.pc = "returned",
                                 !.result = validate_schema(schema.self) ]
    /\ UNCHANGED << engineVars, merge, create, rpc, client, cmd, conv, runner >>

SchemaNext == ValidateSchema

SchemaSpec == SchemaInit /\ [][SchemaNext]_vars

Validated == schema.pc = "returned"

\* The nodes of a schema tree with their dotted paths, depth first: a node,
\* then the items of its list elem by index or the fields of its object elem
\* by key.
RECURSIVE Preorder(_, _)
RECURSIVE PreorderItems(_, _, _)
RECURSIVE PreorderFields(_, _, _)
PreorderItems(items, path, n) ==
    IF n > Len(items) THEN <<>>
    ELSE Preorder(items[n], path \o "." \o Display(n - 1))
             \o PreorderItems(items, path, n + 1)
PreorderFields(fields, path, keys) ==
    IF keys = <<>> THEN <<>>
    ELSE Preorder(fields[Head(keys)], path \o "." \o Head(keys))
             \o PreorderFields(fields, path, Tail(keys))
Preorder(node, path) ==
    << [ path |-> path, node |-> node ] >>
        \o (IF node.elem.kind = "list" THEN PreorderItems(node.elem.items, path, 1)
            ELSE IF node.elem.kind = "object"
            THEN PreorderFields(node.elem.fields, path, Iter(node.elem.fields))
            ELSE <<>>)

Nodes == Preorder(schema.self, "")

\* The name of a declared type, and whether a node's elem is of that type.
TypeName(value_type) ==
    CASE value_type = "TypeString" -> "string"
      [] value_type = "TypeInt"    -> "int"
      [] value_type = "TypeFloat"  -> "float"
      [] value_type = "TypeBool"   -> "bool"
      [] value_type = "TypeList"   -> "list"
      [] value_type = "TypeObject" -> "object"
Matches(node) == node.elem.kind = TypeName(node.value_type)
Mismatches == { n \in DOMAIN Nodes : ~Matches(Nodes[n].node) }
FirstMismatch == CHOOSE n \in Mismatches : \A m \in Mismatches : n <= m

\* C14: validate_schema returns Ok exactly when at every node of the tree the
\* declared value_type agrees with the variant of elem; any disagreement, a
\* Null elem included, yields a TypeMismatch error and never a panic.
C14_OkIffAllNodesAgree ==
    Validated =>
        /\ schema.result.tag \in { "Ok", "Err" }
        /\ schema.result.tag = "Ok" <=> Mismatches = {}
        /\ schema.result.tag = "Err" => schema.result.error = "TypeMismatch"

C14_Witness ==
    /\ Validated
    /\ schema.result.tag = "Err"
    /\ Len(Nodes) >= 3
    /\ \A n \in Mismatches : Nodes[n].node.elem.kind = "null" /\ n > 1

\* C15: when several nodes mismatch, the error returned is the one of the first
\* mismatching node in traversal order (list items by index, object fields in
\* key order, depth first), and no node after it is examined.
C15_FirstMismatchOnly ==
    (Validated /\ Mismatches # {}) =>
        /\ schema.result.tag = "Err"
        /\ schema.result.msg =
               MismatchMessage(Nodes[FirstMismatch].node.value_type,
                               Nodes[FirstMismatch].node.elem,
                               Nodes[FirstMismatch].path)
        /\ schema.result.examined =
               [ n \in 1..FirstMismatch |-> Nodes[n].path ]

C15_Witness ==
    /\ Validated
    /\ schema.result.tag = "Err"
    /\ Cardinality(Mismatches) >= 2
    /\ FirstMismatch >= 3
    /\ Nodes[FirstMismatch].path = ".a.1"
    /\ Len(schema.result.examined) < Len(Nodes)

\* C16: the message of every TypeMismatch names the declared type, the type
\* found, and the dotted path from the root of the node that mismatches, for
\* each declared value_type and for nested nodes.
C16_ErrorCarriesPath ==
    (Validated /\ schema.result.tag = "Err") =>
        schema.result.msg =
            "Expected " \o TypeName(Nodes[FirstMismatch].node.value_type)
                \o " type but found " \o Debug(Nodes[FirstMismatch].node.elem.kind)
                \o " for " \o Nodes[FirstMismatch].path

\* ---------------------------------------------------------------------------
\* Part 4. EC2Instance::create_instance (src/src/aws/ec2/ec2_instance.rs):
\* the run-instances call followed by the convergence engine of Part 1.
\* ---------------------------------------------------------------------------

\* Option<T>.
None == [ some |-> FALSE ]
Some(v) == [ some |-> TRUE, value |-> v ]

\* What request.send().await of line 643 produces: an SDK error, or a
\* RunInstancesOutput whose instances is an Option<Vec<Instance>>; of an
\* Instance only instance_id: Option<String> is read.
InstanceIds == { "i-1", "i-2" }
Instances == { [ instance_id |-> None ] }
                 \cup { [ instance_id |-> Some(id) ] : id \in InstanceIds }
SdkError == [ tag |-> "Err" ]
RunInstancesOutput(instances) == [ tag |-> "Ok", instances |-> instances ]
RunInstancesResults ==
    { SdkError, RunInstancesOutput(None), RunInstancesOutput(Some(<<>>)) }
    \cup { RunInstancesOutput(Some(<< x >>)) : x \in Instances }
    \cup { RunInstancesOutput(Some(<< x, [ instance_id |-> Some("i-1") ] >>)) :
               x \in Instances }
NotSent == [ tag |-> "NotSent" ]

\* lines 645-654: target running, pending pending, no initial delay.  The
\* timeout, the delays and not_found_checks are the defaults of
\* StateChangeConfig::new, which stay within the bounds of Part 1 here.
EC2Configs ==
    { c \in Configs : /\ c.target_state = << "running" >>
                      /\ c.pending_state = << "pending" >>
                      /\ c.initial_delay = 0 }

\* line 659: the resource id the engine is called with.
WaitArgument_Stale(resp) == "i-1"
WaitArgument(resp) == resp.instances.value[1].instance_id.value

\* What create_instance has returned.
Created(instance) == [ tag |-> "Ok", value |-> instance ]
EC2Error(kind) == [ tag |-> "Err", error |-> kind ]
Panicked == [ tag |-> "Panic" ]
NotReturned == [ tag |-> "NotReturned" ]

\* What describe_instances().send() answers: an SDK error, or an output whose
\* reservations hold the instances found.  An instance is written as the
\* handle it is boxed into and the name of its state.
NotAsked == [ tag |-> "NotAsked" ]
DescribedInstances == [ handle : Handles, state : { "pending", "running" } ]
Reservations ==
    { [ instances |-> None ], [ instances |-> Some(<<>>) ] }
        \cup { [ instances |-> Some(<< inst >>) ] : inst \in DescribedInstances }
DescribeInstancesOutput(reservations) == [ tag |-> "Ok", reservations |-> reservations ]
DescribeInstancesResults ==
    { SdkError, DescribeInstancesOutput(None), DescribeInstancesOutput(Some(<<>>)) }
        \cup { DescribeInstancesOutput(Some(<< r >>)) : r \in Reservations }
        \cup { DescribeInstancesOutput(Some(<< [ instances |-> None ], r >>)) :
                 r \in { [ instances |-> Some(<< inst >>) ] :
                            inst \in { x \in DescribedInstances : x.handle = "h2" } } }

\* lines 689-703: the first instance of the first reservation that has one.
RECURSIVE FirstInstance(_)
FirstInstance(reservations) ==
    IF reservations = <<>> THEN None
    ELSE LET instances == Head(reservations).instances
         IN IF instances.some /\ instances.value # <<>>
            THEN Some(instances.value[1])
            ELSE FirstInstance(Tail(reservations))

\* lines 674-708: the refresh function of create_instance, applied to the
\* answer of describe_instances.  Both of its errors are an Err(String).
wait_for_completion(resp) ==
    IF resp.tag = "Err" THEN ErrStr
    ELSE LET found == IF resp.reservations.some
                      THEN FirstInstance(resp.reservations.value)
                      ELSE None
         IN IF found.some
            THEN OkSome(found.value.handle, << found.value.state >>)
            ELSE ErrStr

\* lines 643-661, up to the call of wait_until_state.
AfterSend(resp) ==
    IF resp.tag = "Err"
    THEN [ pc |-> "returned", resp |-> resp, resource_id |-> None,
           returned |-> EC2Error("SdkError"), described |-> NotAsked, asked |-> 0 ]
    ELSE IF ~resp.instances.some
    THEN [ pc |-> "returned", resp |-> resp, resource_id |-> None,
           returned |-> EC2Error("InstanceNotCreated"), described |-> NotAsked,
           asked |-> 0 ]
    ELSE IF resp.instances.value = <<>> \/ ~resp.instances.value[1].instance_id.some
    THEN [ pc |-> "returned", resp |-> resp, resource_id |-> None,
           returned |-> Panicked, described |-> NotAsked, asked |-> 0 ]
    ELSE [ pc |-> "waiting", resp |-> resp,
           resource_id |-> Some(WaitArgument(resp)), returned |-> NotReturned,
           described |-> NotAsked, asked |-> 0 ]

CreateInit ==
    /\ EngineInit
    /\ cfg \in EC2Configs
    /\ create = [ pc |-> "send", resp |-> NotSent, resource_id |-> None,
                  returned |-> NotReturned, described |-> NotAsked, asked |-> 0 ]
    /\ merge = Idle /\ schema = Idle /\ rpc = Idle /\ client = Idle /\ cmd = Idle
    /\ conv = Idle /\ runner = Idle

\* line 643: the run-instances request is sent and answered.
SendRunInstances ==
    /\ create.pc = "send"
    /\ \E resp \in RunInstancesResults : create' = AfterSend(resp)
    /\ UNCHANGED << engineVars, merge, schema, rpc, client, cmd, conv, runner >>

\* lines 681-686: the refresh function sends describe_instances for the
\* resource id; asked counts the requests sent.
DescribeInstances ==
    /\ create.pc = "waiting"
    /\ pc = "refresh"
    /\ create.asked = polls
    /\ \E resp \in DescribeInstancesResults :
         create' = [ create EXCEPT !.described = resp, !.asked = polls + 1 ]
    /\ UNCHANGED << engineVars, merge, schema, rpc, client, cmd, conv, runner >>

\* lines 656-661: wait_until_state runs, polling create.resource_id.  A
\* refresh attempt yields what wait_for_completion makes of the answer to its
\* request, unless its deadline passes first.
WaitUntilState ==
    /\ create.pc = "waiting"
    /\ Next
    /\ pc = "refresh" =>
           /\ create.asked = polls + 1
           /\ obs' \in { Elapsed, Completed(wait_for_completion(create.described)) }

\* lines 661-671: the engine has returned.
CreateReturn ==
    /\ create.pc = "waiting"
    /\ pc = "done"
    /\ create' = [ create EXCEPT
                     !.pc = "returned",
                     !.returned = IF result.tag # "Ok" THEN EC2Error("StateError")
                                  ELSE IF result.value = Unit THEN Panicked
                                  ELSE Created(result.value) ]
    /\ UNCHANGED << engineVars, merge, schema, rpc, client, cmd, conv, runner >>

CreateNext == SendRunInstances \/ DescribeInstances \/ WaitUntilState \/ CreateReturn

CreateSpec == CreateInit /\ [][CreateNext]_vars

\* C17: the convergence poll of a component starts only after the
\* run-instances call has returned successfully, and polls the resource id
\* that call returned; when the call returns an error the engine is never
\* started and no refresh is made.
C17_PollOnlyAfterProvisioning ==
    /\ (pc # "start" \/ polls > 0) =>
           /\ create.resp.tag = "Ok"
           /\ create.resp.instances.some
           /\ create.resp.instances.value # <<>>
           /\ create.resource_id = create.resp.instances.value[1].instance_id
    /\ create.pc = "send" => (pc = "start" /\ polls = 0)
    /\ create.resp.tag = "Err" =>
           /\ pc = "start" /\ polls = 0
           /\ create.pc = "returned" /\ create.returned.tag = "Err"

C17_Witness ==
    /\ create.pc = "returned"
    /\ create.returned.tag = "Ok"
    /\ create.resource_id = Some("i-2")
    /\ polls >= 2

\* ---------------------------------------------------------------------------
\* Part 5. The AWS provider service (src/crates/aws-provider/src/lib.rs)
\* ---------------------------------------------------------------------------

\* pb::ComponentSpec: component_type and the two properties apply_ec2 decides
\* on.  A property is absent, a JSON value that is not a string ("<number>"),
\* or a string.
ComponentTypes == { "EC2Instance", "S3Bucket", "" }
Properties ==
    [ image_id : { "<absent>", "<number>", "ami-1" },
      instance_type : { "<absent>", "<number>", "t3.micro", "bogus" } ]
ComponentSpecs ==
    [ component_type : ComponentTypes,
      properties : { None } \cup { Some(ps) : ps \in Properties } ]
InfraContexts == [ region : { "us-east-1" } ]

\* pb::ApplyRequest / pb::PlanRequest: both fields are optional on the wire.
Requests ==
    [ context : { None } \cup { Some(c) : c \in InfraContexts },
      component : { None } \cup { Some(c) : c \in ComponentSpecs } ]

\* What the AWS SDK does for the request: whether the instance type parses,
\* and what run_instances().send() answers.
SdkOutcomes ==
    [ parses : BOOLEAN,
      send : { SdkError, RunInstancesOutput(Some(<<>>)) }
                 \cup { RunInstancesOutput(Some(<< x >>)) : x \in Instances } ]

\* Result<Response<_>, Status>.
RpcOk(message) == [ tag |-> "Ok", message |-> message ]
Status(code, message) == [ tag |-> "Err", code |-> code, message |-> message ]
NoResponse == [ tag |-> "NoResponse" ]

\* serde_json::Value::as_str of a property.
as_str(v) == IF v \in { "<absent>", "<number>" } THEN None ELSE Some(v)

\* lines 141-233.
apply_ec2(region, comp, sdk) ==
    IF ~comp.properties.some
    THEN Status("InvalidArgument", "missing properties")
    ELSE LET json == comp.properties.value
             image_id == as_str(json.image_id)
             instance_type_str ==
                 IF as_str(json.instance_type).some
                 THEN json.instance_type ELSE "t3.micro"
         IN  IF ~image_id.some
             THEN Status("InvalidArgument", "properties.image_id is required")
             ELSE IF ~sdk.parses
             THEN Status("InvalidArgument",
                         "invalid instance_type: " \o instance_type_str)
             ELSE IF sdk.send.tag = "Err"
             THEN Status("Internal", "AWS SDK error: " \o "<sdk>")
             ELSE IF \/ sdk.send.instances.value = <<>>
                     \/ ~sdk.send.instances.value[1].instance_id.some
             THEN Status("Internal", "EC2 did not return instance id")
             ELSE LET instance_id == sdk.send.instances.value[1].instance_id.value
                  IN  RpcOk([ success |-> TRUE, resource_id |-> instance_id,
                              outputs |-> [ k \in { "instance_id" } |-> instance_id ],
                              error_message |-> "" ])

\* lines 111-128.
apply(req, sdk) ==
    IF ~req.context.some THEN Status("InvalidArgument", "missing context")
    ELSE IF ~req.component.some THEN Status("InvalidArgument", "missing component")
    ELSE IF req.component.value.component_type = "EC2Instance"
    THEN apply_ec2(req.context.value.region, req.component.value, sdk)
    ELSE Status("Unimplemented",
                "Unsupported component_type: "
                    \o req.component.value.component_type)

\* lines 85-109.
plan(req) ==
    LET supported ==
            req.component.some /\ req.component.value.component_type = "EC2Instance"
    IN  RpcOk([ supported |-> supported,
                plan_summary |-> IF supported THEN "Create EC2 instance"
                                 ELSE "Unsupported component",
                computed |-> EmptyMap ])

\* A type listed that no RPC handles.
get_capabilities_WithS3 ==
    RpcOk([ resource_types |-> << "EC2Instance", "S3Bucket" >> ])

\* lines 76-83.
get_capabilities == RpcOk([ resource_types |-> << "EC2Instance" >> ])

\* lines 130-138.
destroy == RpcOk([ success |-> FALSE, error_message |-> "not implemented" ])

ProviderInit ==
    /\ \E req \in Requests, sdk \in SdkOutcomes :
           rpc = [ pc |-> "call", method |-> "", request |-> req, sdk |-> sdk,
                   response |-> NoResponse ]
    /\ cfg = Idle /\ pc = "idle" /\ now = 0 /\ i = 0 /\ not_found_count = 0
    /\ current_delay = 0 /\ last_state = "" /\ last_resource = Idle
    /\ result = Idle /\ polls = 0 /\ obs = Idle /\ absent_run = 0
    /\ observed_state = "" /\ sleeps = <<>>
    /\ merge = Idle /\ schema = Idle /\ create = Idle /\ client = Idle /\ cmd = Idle
    /\ conv = Idle /\ runner = Idle

\* The provider answers one request, by the method the caller chose.
GetCapabilities ==
    /\ rpc.pc = "call"
    /\ rpc' = [ rpc EXCEPT !.pc = "answered", !.method = "GetCapabilities",
                           !.response = get_capabilities ]
    /\ UNCHANGED << engineVars, merge, schema, create, client, cmd, conv, runner >>

\* lines 85-109.
Plan ==
    /\ rpc.pc = "call"
    /\ rpc' = [ rpc EXCEPT !.pc = "answered", !.method = "Plan",
                           !.response = plan(rpc.request) ]
    /\ UNCHANGED << engineVars, merge, schema, create, client, cmd, conv, runner >>

\* lines 111-128 and 141-233.
Apply ==
    /\ rpc.pc = "call"
    /\ rpc' = [ rpc EXCEPT !.pc = "answered", !.method = "Apply",
                           !.response = apply(rpc.request, rpc.sdk) ]
    /\ UNCHANGED << engineVars, merge, schema, create, client, cmd, conv, runner >>

\* lines 130-138.
Destroy ==
    /\ rpc.pc = "call"
    /\ rpc' = [ rpc EXCEPT !.pc = "answered", !.method = "Destroy",
                           !.response = destroy ]
    /\ UNCHANGED << engineVars, merge, schema, create, client, cmd, conv, runner >>

ProviderNext == GetCapabilities \/ Plan \/ Apply \/ Destroy

ProviderSpec == ProviderInit /\ [][ProviderNext]_vars

Applied == rpc.pc = "answered" /\ rpc.method = "Apply"

\* The request names a component that Apply cannot provision: its type is not
\* supported, its properties are missing or invalid, or the SDK call fails.
CannotProvision ==
    /\ rpc.request.context.some
    /\ rpc.request.component.some
    /\ LET comp == rpc.request.component.value
       IN  \/ comp.component_type # "EC2Instance"
           \/ ~comp.properties.some
           \/ comp.properties.value.image_id # "ami-1"
           \/ ~rpc.sdk.parses
           \/ rpc.sdk.send.tag = "Err"

\* C18: when Apply cannot provision the component, it answers with a response
\* whose success is false and whose error_message is not empty, and not only
\* with an error status.
C18_ApplyFailureIsResponse ==
    (Applied /\ CannotProvision) =>
        /\ rpc.response.tag = "Ok"
        /\ ~rpc.response.message.success
        /\ rpc.response.message.error_message # ""

\* ---------------------------------------------------------------------------
\* Part 6. The provider client: ProviderClientRegistry::get_client,
\* grpc_apply_component and grpc_plan_component
\* (src/crates/yamlet-core/src/provider/mod.rs)
\* ---------------------------------------------------------------------------

\* CloudProvider::as_str of the only cloud, CloudProvider::AWS.
Cloud == "AWS"

\* ProviderClientRegistry::from_env: the endpoint of "AWS" when the variable
\* LETUS_PROVIDER_AWS_ENDPOINT is set, whatever its text, and nothing else.
EndpointUrls == { "http://127.0.0.1:50051", "not a uri" }
Registries == { EmptyMap } \cup { [ c \in { Cloud } |-> url ] : url \in EndpointUrls }

\* line 38: Endpoint::from_shared accepts a well-formed URI only.
from_shared(url) == url = "http://127.0.0.1:50051"

\* lines 33-36: self.endpoints.get(cloud.as_str()).
Get_OrDefault(endpoints, cloud) ==
    IF cloud \in DOMAIN endpoints THEN Some(endpoints[cloud])
    ELSE Some("http://127.0.0.1:50051")
Get(endpoints, cloud) ==
    IF cloud \in DOMAIN endpoints THEN Some(endpoints[cloud]) ELSE None

\* Result<ProviderClient<Channel>, String> of get_client.
ClientOk == [ tag |-> "Ok" ]
ClientErr(text) == [ tag |-> "Err", text |-> text ]

\* lines 52 and 161: the map_err of a get_client error.
Unavailable(e) == Status("Unavailable", "failed to connect to provider: " \o e)

\* The component and the configuration the caller passes; the workspace comes
\* from the variable LETUS_WORKSPACE.
Components == [ component_type : ComponentTypes, properties : Properties ]
Workspaces == { None, Some("dev") }

\* lines 134-150: component_to_pb; properties is always Some.
component_to_pb(component) ==
    [ component_type |-> component.component_type,
      properties |-> Some(component.properties) ]

\* lines 54-65 and 163-174: the request that is sent.
RequestOf(component, workspace) ==
    [ context |-> Some([ deployment_name |-> "demo",
                         workspace |-> IF workspace.some THEN workspace.value
                                       ELSE "default",
                         cloud |-> Cloud, region |-> "us-east-1" ]),
      component |-> Some(component_to_pb(component)) ]

\* What client.apply(req).await / client.plan(req).await can produce: the
\* provider's answer, or a status made by the transport.
RpcResults(fn, req) ==
    (IF fn = "apply" THEN { apply(req, sdk) : sdk \in SdkOutcomes }
     ELSE { plan(req) })
    \cup { Status("Unavailable", "transport error") }

ClientInit ==
    /\ \E reg \in Registries, fn \in { "apply", "plan" }, w \in Workspaces,
          c \in Components :
           client = [ pc |-> "call", fn |-> fn, endpoints |-> reg,
                      workspace |-> w, component |-> c,
                      get_client |-> None, lookups |-> 0, connects |-> 0,
                      sent |-> <<>>, returned |-> NoResponse ]
    /\ cfg = Idle /\ pc = "idle" /\ now = 0 /\ i = 0 /\ not_found_count = 0
    /\ current_delay = 0 /\ last_state = "" /\ last_resource = Idle
    /\ result = Idle /\ polls = 0 /\ obs = Idle /\ absent_run = 0
    /\ observed_state = "" /\ sleeps = <<>>
    /\ merge = Idle /\ schema = Idle /\ create = Idle /\ rpc = Idle /\ cmd = Idle
    /\ conv = Idle /\ runner = Idle

\* lines 33-38 (called from lines 49-52 / 158-161): the endpoint is looked up
\* and parsed; an error of get_client makes the caller return 'unavailable'.
GetClient ==
    /\ client.pc = "call"
    /\ LET url == Get(client.endpoints, Cloud)
           err == IF ~url.some
                  THEN ClientErr("no endpoint configured for " \o Cloud)
                  ELSE ClientErr("invalid uri")
       IN  IF url.some /\ from_shared(url.value)
           THEN client' = [ client EXCEPT !.pc = "connecting",
                                          !.lookups = @ + 1 ]
           ELSE client' = [ client EXCEPT !.pc = "returned",
                                          !.lookups = @ + 1,
                                          !.get_client = Some(err),
                                          !.returned = Unavailable(err.text) ]
    /\ UNCHANGED << engineVars, merge, schema, create, rpc, cmd, conv, runner >>

\* line 39: endpoint.connect().await; then lines 54-67 / 163-176 build the
\* request and send it.
Connect ==
    /\ client.pc = "connecting"
    /\ \E connected \in BOOLEAN :
           IF connected
           THEN client' = [ client EXCEPT
                              !.pc = "sending", !.connects = @ + 1,
                              !.get_client = Some(ClientOk),
                              !.sent = Append(@, RequestOf(client.component,
                                                           client.workspace)) ]
           ELSE client' = [ client EXCEPT
                              !.pc = "returned", !.connects = @ + 1,
                              !.get_client = Some(ClientErr("transport error")),
                              !.returned = Unavailable("transport error") ]
    /\ UNCHANGED << engineVars, merge, schema, create, rpc, cmd, conv, runner >>

\* lines 67 / 176: the RPC is answered and its result returned.
RpcReturn ==
    /\ client.pc = "sending"
    /\ \E r \in RpcResults(client.fn, client.sent[Len(client.sent)]) :
           client' = [ client EXCEPT !.pc = "returned", !.returned = r ]
    /\ UNCHANGED << engineVars, merge, schema, create, rpc, cmd, conv, runner >>

ClientNext == GetClient \/ Connect \/ RpcReturn

ClientSpec == ClientInit /\ [][ClientNext]_vars

\* C19: when no endpoint is registered for the configuration's cloud,
\* get_client fails with "no endpoint configured for AWS", and
\* grpc_plan_component and grpc_apply_component return an 'unavailable' status
\* after one lookup, without connecting and without sending any RPC.
C19_NoEndpointIsUnavailable ==
    (Cloud \notin DOMAIN client.endpoints) =>
        /\ client.sent = <<>>
        /\ client.connects = 0
        /\ client.lookups <= 1
        /\ client.pc \in { "call", "returned" }
        /\ client.pc = "returned" =>
               /\ client.lookups = 1
               /\ client.get_client = Some(ClientErr("no endpoint configured for AWS"))
               /\ client.returned.tag = "Err"
               /\ client.returned.code = "Unavailable"

C19_Witness ==
    /\ client.pc = "returned"
    /\ client.endpoints = EmptyMap
    /\ client.fn = "plan"
    /\ client.returned =
           Status("Unavailable",
                  "failed to connect to provider: no endpoint configured for AWS")

\* ---------------------------------------------------------------------------
\* Part 7. The apply and plan commands
\* (src/src/commands/apply.rs, src/crates/yamlet-core/src/commands/plan.rs,
\*  src/crates/yamlet-core/src/commands/validate.rs,
\*  src/crates/yamlet-core/src/utils/mod.rs)
\* ---------------------------------------------------------------------------

\* The largest number of components a configuration file declares.
MaxComponents == 2

\* models::Component: its type, its name, and whether its properties hold what
\* an EC2 instance needs (instance_type, ami).
DeclaredComponents ==
    [ component_type : { "", "EC2Instance", "VPC" }, name : { "", "web" },
      properties : { "complete", "incomplete" } ]

\* models::InfraConfig, reduced to metadata.name and components.
InfraConfigs ==
    [ name : { "", "demo" },
      components : SeqsUpTo(DeclaredComponents, MaxComponents) ]

\* The file of the --filepath option: unreadable, not a YAML InfraConfig, or
\* the YAML of a configuration.
Unreadable == [ tag |-> "Unreadable" ]
NotYaml == [ tag |-> "NotYaml" ]
YamlOf(config) == [ tag |-> "Yaml", config |-> config ]
Files == { Unreadable, NotYaml } \cup { YamlOf(c) : c \in InfraConfigs }

\* Result<(), ValidationError>.
Valid == [ tag |-> "Ok" ]
ValidationError(kind, text) == [ tag |-> "Err", error |-> kind, text |-> text ]

\* validate.rs lines 87-100: the loop over the components, from index idx.
RECURSIVE ValidateComponents(_, _)
ValidateComponents(components, idx) ==
    IF idx > Len(components) THEN Valid
    ELSE IF components[idx].component_type = ""
    THEN ValidationError("InfraConfigValidationError",
                         "Component type cannot be empty")
    ELSE IF components[idx].name = ""
    THEN ValidationError("InfraConfigValidationError",
                         "Component name cannot be empty")
    ELSE ValidateComponents(components, idx + 1)

\* validate.rs lines 56-104.
validate_infra_config(config) ==
    IF config.name = ""
    THEN ValidationError("InfraConfigValidationError", "Metadata cannot be empty")
    ELSE IF config.components = <<>>
    THEN ValidationError("InfraConfigValidationError",
                         "At least one component is required")
    ELSE ValidateComponents(config.components, 1)

\* validate.rs lines 34-54.
validate_file(file) ==
    IF file.tag = "Unreadable" THEN ValidationError("FileReadError", "io")
    ELSE IF file.tag = "NotYaml" THEN ValidationError("YamlParseError", "yaml")
    ELSE validate_infra_config(file.config)

\* What EC2Instance::create_instance returns to create_ec2_instance.
CreateOutcomes == { "Ok", "SdkError", "StateError", "InstanceNotCreated" }

CmdInit ==
    /\ \E c \in { "apply", "plan" }, f \in Files :
           cmd = [ pc |-> "start", command |-> c, file |-> f, is_valid |-> None,
                   k |-> 1, planned |-> <<>>, provisioned |-> <<>>,
                   log |-> <<>>, exit |-> "running" ]
    /\ cfg = Idle /\ pc = "idle" /\ now = 0 /\ i = 0 /\ not_found_count = 0
    /\ current_delay = 0 /\ last_state = "" /\ last_resource = Idle
    /\ result = Idle /\ polls = 0 /\ obs = Idle /\ absent_run = 0
    /\ observed_state = "" /\ sleeps = <<>>
    /\ merge = Idle /\ schema = Idle /\ create = Idle /\ rpc = Idle
    /\ client = Idle
    /\ conv = Idle /\ runner = Idle

\* apply.rs lines 21-45 and plan.rs lines 58-100, up to the loop over the
\* components: the file is validated, then read and parsed again.  apply binds
\* the verdict to is_valid and never reads it; plan prints it.
Execute ==
    /\ cmd.pc = "start"
    /\ LET verdict == validate_file(cmd.file)
           report  == IF cmd.command = "plan" /\ verdict.tag = "Err"
                      THEN << "Plan Failed while validating file" >> ELSE <<>>
       IN  IF cmd.file.tag = "Unreadable"
           THEN cmd' = [ cmd EXCEPT !.pc = "done", !.exit = "returned",
                                    !.is_valid = Some(verdict),
                                    !.log = report \o << "Failed to read file" >> ]
           ELSE IF cmd.file.tag = "NotYaml"
           THEN cmd' = [ cmd EXCEPT !.pc = "done", !.exit = "returned",
                                    !.is_valid = Some(verdict),
                                    !.log = report \o << "Failed to parse YAML" >> ]
           ELSE cmd' = [ cmd EXCEPT !.pc = "loop", !.is_valid = Some(verdict),
                                    !.log = report ]
    /\ UNCHANGED << engineVars, merge, schema, create, rpc, client, conv, runner >>

\* apply.rs lines 53 and 81: create_instance is called for component c.k and
\* awaited; the loop does not go on before it returns.
BeginCreate_Spawned(c) ==
    [ c EXCEPT !.k = @ + 1, !.provisioned = Append(@, c.k) ]
BeginCreate(c) ==
    [ c EXCEPT !.pc = "creating", !.provisioned = Append(@, c.k) ]

\* apply.rs lines 53-60: both arms of the match on the result of
\* create_ec2_instance print a line, and the loop goes on to the next component.
AfterCreate_StopOnFailure(c, outcome) ==
    IF outcome = "Ok"
    THEN [ c EXCEPT !.pc = "loop", !.k = @ + 1,
                    !.log = Append(@, "Successfully created EC2 instance") ]
    ELSE [ c EXCEPT !.pc = "done", !.exit = "returned",
                    !.log = Append(@, "Failed to create EC2 instance") ]
AfterCreate(c, outcome) ==
    [ c EXCEPT !.pc = "loop", !.k = @ + 1,
               !.log = Append(@, IF outcome = "Ok"
                                 THEN "Successfully created EC2 instance"
                                 ELSE "Failed to create EC2 instance") ]

\* apply.rs lines 49-53, 62-64 and 74-81: one component of create_components,
\* up to the call of create_instance.
ApplyComponent ==
    /\ cmd.pc = "loop" /\ cmd.command = "apply"
    /\ cmd.k <= Len(cmd.file.config.components)
    /\ LET c == cmd.file.config.components[cmd.k]
       IN  IF c.component_type # "EC2Instance"
           THEN cmd' = [ cmd EXCEPT !.k = @ + 1,
                                    !.log = Append(@, "Unsupported component type") ]
           ELSE IF c.properties = "incomplete"
           THEN cmd' = [ cmd EXCEPT !.k = @ + 1,
                                    !.log = Append(@, "Failed to create EC2 instance") ]
           ELSE cmd' = BeginCreate(cmd)
    /\ UNCHANGED << engineVars, merge, schema, create, rpc, client, conv, runner >>

\* apply.rs lines 53-60: create_instance has returned.
CreateInstanceReturn ==
    /\ cmd.pc = "creating"
    /\ \E outcome \in CreateOutcomes : cmd' = AfterCreate(cmd, outcome)
    /\ UNCHANGED << engineVars, merge, schema, create, rpc, client, conv, runner >>

\* ec2_instance.rs line 659: create_instance panics on a response whose
\* instances are empty or whose first instance has no id (AfterSend).
CreateInstancePanics ==
    /\ cmd.pc = "creating"
    /\ cmd' = [ cmd EXCEPT !.pc = "done", !.exit = "panicked" ]
    /\ UNCHANGED << engineVars, merge, schema, create, rpc, client, conv, runner >>

\* utils/mod.rs lines 37-52 and 72-91: one component of plan_components.
\* plan_ec2_instance panics on a missing instance_type or ami.
PlanComponent ==
    /\ cmd.pc = "loop" /\ cmd.command = "plan"
    /\ cmd.k <= Len(cmd.file.config.components)
    /\ LET c == cmd.file.config.components[cmd.k]
       IN  IF c.component_type = "EC2Instance" /\ c.properties = "incomplete"
           THEN cmd' = [ cmd EXCEPT !.pc = "done", !.exit = "panicked",
                                    !.planned = Append(@, cmd.k) ]
           ELSE cmd' = [ cmd EXCEPT
                           !.k = @ + 1, !.planned = Append(@, cmd.k),
                           !.log = IF c.component_type = "EC2Instance" THEN @
                                   ELSE Append(@, "Unsupported component type") ]
    /\ UNCHANGED << engineVars, merge, schema, create, rpc, client, conv, runner >>

\* The loop is over: create_components returns (apply.rs line 67), or the plan
\* is printed (plan.rs lines 88-91).
Finish ==
    /\ cmd.pc = "loop"
    /\ cmd.k > Len(cmd.file.config.components)
    /\ cmd' = [ cmd EXCEPT
                  !.pc = "done", !.exit = "returned",
                  !.log = IF cmd.command = "plan"
                          THEN Append(@, "Plan generated successfully:") ELSE @ ]
    /\ UNCHANGED << engineVars, merge, schema, create, rpc, client, conv, runner >>

CmdNext ==
    \/ Execute
    \/ ApplyComponent
    \/ CreateInstanceReturn
    \/ CreateInstancePanics
    \/ PlanComponent
    \/ Finish

CmdSpec == CmdInit /\ [][CmdNext]_vars

\* The configuration of the file fails validation: its metadata name is
\* empty, it has no component, or a component has an empty type or name.
FailsValidation ==
    /\ cmd.file.tag = "Yaml"
    /\ \/ cmd.file.config.name = ""
       \/ cmd.file.config.components = <<>>
       \/ \E n \in DOMAIN cmd.file.config.components :
              \/ cmd.file.config.components[n].component_type = ""
              \/ cmd.file.config.components[n].name = ""

\* C20: when the configuration fails validation, the apply and plan commands
\* stop: no component is planned and no provisioning call is made in that run.
C20_InvalidConfigStopsRun ==
    FailsValidation =>
        /\ cmd.planned = <<>>
        /\ cmd.provisioned = <<>>

\* An apply run over a parsed configuration, and the components that need a
\* provisioning call: the EC2 instances whose options can be built.
ApplyRun == cmd.command = "apply" /\ cmd.file.tag = "Yaml"
Declared == IF cmd.file.tag = "Yaml" THEN cmd.file.config.components ELSE <<>>
Provisionable ==
    { n \in DOMAIN Declared : /\ Declared[n].component_type = "EC2Instance"
                               /\ Declared[n].properties = "complete" }
FailedComponents ==
    { n \in DOMAIN cmd.log : cmd.log[n] = "Failed to create EC2 instance" }

\* C21: in an apply run the failure of a component (its options, its
\* provisioning call or its convergence wait return an error) does not stop
\* the run: after a failure the loop is at the next component, and a run that
\* returns has attempted every declared component.
C21_FailureDoesNotStopRun ==
    ApplyRun =>
        /\ cmd.pc \in { "loop", "creating" } => Len(cmd.log) = cmd.k - 1
        /\ (cmd.pc = "done" /\ cmd.exit = "returned") =>
               /\ cmd.k = Len(Declared) + 1
               /\ Len(cmd.log) = Len(Declared)
               /\ { cmd.provisioned[n] : n \in DOMAIN cmd.provisioned } = Provisionable

C21_Witness ==
    /\ ApplyRun
    /\ cmd.pc = "done" /\ cmd.exit = "returned"
    /\ Len(Declared) = 2
    /\ cmd.provisioned = << 1, 2 >>
    /\ FailedComponents = { 1 }

\* C28: the apply driver handles the components one at a time in declared
\* order: a component's provisioning call is made only when every earlier
\* component has been handled and its operation has returned, so at most one
\* operation is in flight.
InFlight ==
    { n \in DOMAIN cmd.provisioned : cmd.provisioned[n] > Len(cmd.log) }
C28_OneComponentAtATime ==
    ApplyRun =>
        /\ Cardinality(InFlight) <= 1
        /\ InFlight # {} <=> cmd.pc = "creating" \/ cmd.exit = "panicked"
        /\ \A n \in DOMAIN cmd.provisioned :
               /\ cmd.provisioned[n] <= Len(cmd.log) + 1
               /\ \A m \in DOMAIN cmd.provisioned :
                      m < n => cmd.provisioned[m] < cmd.provisioned[n]

C28_Witness ==
    /\ ApplyRun
    /\ cmd.pc = "creating"
    /\ cmd.provisioned = << 1, 2 >>
    /\ Len(cmd.log) = 1

\* ---------------------------------------------------------------------------
\* Claims about create_instance, continued (specification CreateSpec).
\* ---------------------------------------------------------------------------

\* The latest refresh completed, and its describe_instances request was
\* answered without any instance for the resource id.
Missed ==
    /\ polls > 0
    /\ create.asked = polls
    /\ obs.tag = "Completed"
    /\ create.described.tag = "Ok"
    /\ ~(create.described.reservations.some
           /\ FirstInstance(create.described.reservations.value).some)

\* C26: during EC2 instance creation a refresh that finds no instance is
\* reported to the engine as "resource absent": it is counted against
\* not_found_checks, and the wait ends on a miss only with NotFound, once
\* more than not_found_checks consecutive misses were counted; a miss never
\* ends it with RefreshError.
C26_MissIsResourceAbsent ==
    Missed =>
        /\ Absent
        /\ not_found_count >= 1
        /\ Done => (result.tag = "NotFound" /\ not_found_count > cfg.not_found_checks)

\* ---------------------------------------------------------------------------
\* Claims about the convergence engine, continued (specification Spec).
\* ---------------------------------------------------------------------------

Succeeded == Done /\ result.tag = "Ok"

\* C23, as stated: with an empty target_state the call returns success only
\* when a refresh reported the resource absent; a refresh that reports the
\* resource present, whatever its state vector, never makes it succeed.
C23_SuccessOnlyWhenReportedAbsent ==
    (cfg.target_state = <<>> /\ Succeeded) => Absent

\* C23, amended: with an empty target_state the call returns success only in
\* the iteration whose refresh reported the resource absent or did not
\* complete within its deadline (both give the unit handle), or reported the
\* resource present with an empty state vector (which gives that refresh's
\* handle); a refresh reporting a present resource with a non-empty state
\* vector never makes it succeed.
C23_SuccessWithEmptyTarget ==
    (cfg.target_state = <<>> /\ Succeeded) =>
        \/ (Absent \/ Overdue) /\ result = Ok(Unit)
        \/ Present /\ obs.value.state = <<>> /\ result = Ok(obs.value.handle)

C23_Witness ==
    /\ cfg.target_state = <<>>
    /\ Succeeded
    /\ Present
    /\ obs.value.state = <<>>
    /\ result = Ok(obs.value.handle)
    /\ polls > 1

\* C27: the handle returned on convergence is the one produced by the refresh
\* call that observed the target state, also when earlier polls retained a
\* handle; the retained handle is always the latest one a refresh produced.
C27_HandleOfConvergingRefresh ==
    /\ Converged =>
           /\ Present
           /\ obs.value.state = cfg.target_state
           /\ result = Ok(obs.value.handle)
    /\ Present => last_resource = obs.value.handle

C27_Witness ==
    /\ Converged
    /\ polls >= 3
    /\ cfg.target_state = << "running", "pending" >>
    /\ Present
    /\ result = Ok(obs.value.handle)
    /\ obs.value.handle = "h2"

\* ---------------------------------------------------------------------------
\* Claims about the AWS provider, continued (specification ProviderSpec).
\* ---------------------------------------------------------------------------

\* The component types GetCapabilities lists.
Listed ==
    LET types == get_capabilities.message.resource_types
    IN  { types[n] : n \in DOMAIN types }

Planned == rpc.pc = "answered" /\ rpc.method = "Plan"

RejectedAsUnsupported ==
    rpc.response.tag = "Err" /\ rpc.response.code = "Unimplemented"

\* C29: the RPCs agree on the supported component types.  For a request that
\* names a component, Plan answers supported = true exactly when the
\* component's type is listed by GetCapabilities; for a request that carries
\* a context and a component, Apply rejects it as unsupported exactly when
\* the type is not listed, and it never rejects a listed type as unsupported.
C29_RpcsAgreeOnTypes ==
    /\ rpc.pc = "answered" /\ rpc.method = "GetCapabilities" =>
           rpc.response = get_capabilities
    /\ (Planned /\ rpc.request.component.some) =>
           (rpc.response.message.supported
                <=> rpc.request.component.value.component_type \in Listed)
    /\ (Planned /\ ~rpc.request.component.some) => ~rpc.response.message.supported
    /\ (Applied /\ rpc.request.context.some /\ rpc.request.component.some) =>
           (RejectedAsUnsupported
                <=> rpc.request.component.value.component_type \notin Listed)
    /\ (Applied /\ RejectedAsUnsupported) =>
           /\ rpc.request.component.some
           /\ rpc.request.component.value.component_type \notin Listed

C29_Witness ==
    /\ Applied
    /\ rpc.request.context.some
    /\ rpc.request.component.some
    /\ rpc.request.component.value.component_type = "S3Bucket"
    /\ rpc.request.component.value.properties.some
    /\ RejectedAsUnsupported
    /\ Listed = { "EC2Instance" }

\* ---------------------------------------------------------------------------
\* Claims about merge_diff, continued (specification MergeSpec).
\* ---------------------------------------------------------------------------

MergedAgain == merge.pc = "merged_again"

\* C24: merge_diff is idempotent: merging a diff into the state that
\* merge_diff returned for that diff gives the same state again.
C24_MergeIdempotent ==
    MergedAgain => merge.again = merge.result

C24_Witness ==
    /\ MergedAgain
    /\ DOMAIN merge.self.attributes = {"a", "b"}
    /\ DOMAIN merge.diff.attributes = {"a", "b"}
    /\ merge.diff.attributes["a"].new_removed
    /\ merge.diff.attributes["b"].new_computed
    /\ ~merge.diff.attributes["b"].new_removed
    /\ merge.result.attributes = [ k \in {"b"} |-> YAMLET_UNKNOWN_VARIABLE_VALUE ]
    /\ merge.again = merge.result

\* C25: merge_diff changes attributes only: the result has the id and the
\* identity map of the input state, and it is the same whatever the diff's
\* destroy flag and identity map are.
C25_AttributesOnly ==
    Merged =>
        /\ merge.result.id = merge.self.id
        /\ merge.result.identity = merge.self.identity
        /\ \A flag \in BOOLEAN, other \in Identities :
             merge_diff(merge.self,
                        [ merge.diff EXCEPT !.destroy = flag,
                                            !.identity = other ])
                 = merge.result

C25_Witness ==
    /\ Merged
    /\ merge.diff.destroy
    /\ merge.diff.identity # EmptyMap
    /\ merge.self.identity = EmptyMap
    /\ merge.self.id = "i-1"
    /\ merge.result.attributes # merge.self.attributes
    /\ merge.result.identity = EmptyMap
    /\ merge.result.id = "i-1"

(***************************************************************************)
(* Part 8: property values on the wire.  The client turns each JSON        *)
(* property value into a protobuf Value (json_to_pb_value, yamlet-core     *)
(* provider/mod.rs) and the provider turns it back (pb_value_to_json,      *)
(* aws-provider lib.rs).  A serde_json number is a PosInt (u64), a NegInt  *)
(* (i64) or a Float (f64); a protobuf number is always an f64.  Numbers    *)
(* are written by their decimal value, so that integers larger than 2^53   *)
(* can be told from the doubles next to them.                              *)
(***************************************************************************)

\* 2^53 + 1, the first integer that is not an f64, and the f64 nearest to it.
BigInteger == "9007199254740993"
BigDouble == "9007199254740992"

\* serde_json::Number: the variant N and the decimal value v.
PosInt(v) == [ N |-> "PosInt", v |-> v ]
NegInt(v) == [ N |-> "NegInt", v |-> v ]
Float(v) == [ N |-> "Float", v |-> v ]
Numbers == { PosInt("42"), PosInt(BigInteger), NegInt("-7"), Float("1.5") }

\* `u64 as f64` / `i64 as f64`: the nearest double, ties to even.
NearestDouble(v) == IF v = BigInteger THEN BigDouble ELSE v

as_f64_Exact(n) == n.v

\* Number::as_f64: Some(f) for a Float, Some(n as f64) for an integer.
as_f64(n) == IF n.N = "Float" THEN n.v ELSE NearestDouble(n.v)

\* serde_json::Value
JNull == [ type |-> "Null" ]
JBool(b) == [ type |-> "Bool", bool |-> b ]
JNumber(n) == [ type |-> "Number", number |-> n ]
JString(str) == [ type |-> "String", string |-> str ]
JArray(items) == [ type |-> "Array", array |-> items ]
JObject(map) == [ type |-> "Object", object |-> map ]

JsonScalars ==
    {JNull, JBool(TRUE), JBool(FALSE), JString("web")}
        \cup { JNumber(n) : n \in Numbers }

JsonContainers(S) ==
    { JArray(items) : items \in SeqsUpTo(S, MaxItems) }
        \cup { JObject(map) : map \in MapsTo(AttrKeys, S) }

\* The values nested inside the two-level values.
JsonInner ==
    { JNull, JString("web"), JNumber(PosInt("42")),
      JArray(<< JNumber(PosInt(BigInteger)), JBool(TRUE) >>),
      JArray(<< JString("web"), JNumber(Float("1.5")) >>),
      JObject(Insert(EmptyMap, "a", JNumber(Float("1.5")))),
      JObject(Insert(Insert(EmptyMap, "a", JNull), "b", JNumber(NegInt("-7")))) }

JsonValues == JsonScalars \cup JsonContainers(JsonScalars) \cup JsonContainers(JsonInner)

\* prost_types::Value { kind: Option<Kind> }
PbValue(kind) == [ kind |-> kind ]
NullValue(x) == [ case |-> "NullValue", null_value |-> x ]
NumberValue(f) == [ case |-> "NumberValue", number_value |-> f ]
StringValue(str) == [ case |-> "StringValue", string_value |-> str ]
BoolValue(b) == [ case |-> "BoolValue", bool_value |-> b ]
StructValue(fields) == [ case |-> "StructValue", struct_value |-> [ fields |-> fields ] ]
ListValue(values) == [ case |-> "ListValue", list_value |-> [ values |-> values ] ]

RECURSIVE json_to_pb_value(_)
json_to_pb_value(value) ==
    CASE value.type = "Null" -> PbValue(Some(NullValue(0)))
      [] value.type = "Bool" -> PbValue(Some(BoolValue(value.bool)))
      [] value.type = "Number" -> PbValue(Some(NumberValue(as_f64(value.number))))
      [] value.type = "String" -> PbValue(Some(StringValue(value.string)))
      [] value.type = "Array" ->
            PbValue(Some(ListValue(
                [ n \in DOMAIN value.array |-> json_to_pb_value(value.array[n]) ])))
      [] value.type = "Object" ->
            PbValue(Some(StructValue(
                [ k \in DOMAIN value.object |-> json_to_pb_value(value.object[k]) ])))

\* serde_json::Value::from(f64): every f64 written here is finite, so the
\* result is a Float number (a NaN or an infinity would give Null).
from_f64(f) == JNumber(Float(f))

RECURSIVE pb_value_to_json(_)
pb_value_to_json(v) ==
    IF v.kind = None THEN JNull
    ELSE LET kind == v.kind.value IN
         CASE kind.case = "NullValue" -> JNull
           [] kind.case = "NumberValue" -> from_f64(kind.number_value)
           [] kind.case = "StringValue" -> JString(kind.string_value)
           [] kind.case = "BoolValue" -> JBool(kind.bool_value)
           [] kind.case = "StructValue" ->
                 JObject([ k \in DOMAIN kind.struct_value.fields |->
                             pb_value_to_json(kind.struct_value.fields[k]) ])
           [] kind.case = "ListValue" ->
                 JArray([ n \in DOMAIN kind.list_value.values |->
                            pb_value_to_json(kind.list_value.values[n]) ])

ConvInit ==
    /\ cfg = Idle /\ pc = "idle" /\ now = 0 /\ i = 0 /\ not_found_count = 0
    /\ current_delay = 0 /\ last_state = "" /\ last_resource = Idle
    /\ result = Idle /\ polls = 0 /\ obs = Idle /\ absent_run = 0
    /\ observed_state = "" /\ sleeps = <<>>
    /\ merge = Idle /\ schema = Idle /\ create = Idle
    /\ rpc = Idle /\ client = Idle /\ cmd = Idle /\ runner = Idle
    /\ \E json \in JsonValues :
         conv = [ pc |-> "json", json |-> json, pb |-> Idle, back |-> Idle ]

\* The client side: component_to_pb builds the request's properties.
JsonToPb ==
    /\ conv.pc = "json"
    /\ conv' = [ conv EXCEPT !.pc = "pb", !.pb = json_to_pb_value(conv.json) ]
    /\ UNCHANGED << engineVars, merge, schema, create, rpc, client, cmd, runner >>

\* The provider side: apply reads the request's properties.
PbToJson ==
    /\ conv.pc = "pb"
    /\ conv' = [ conv EXCEPT !.pc = "done", !.back = pb_value_to_json(conv.pb) ]
    /\ UNCHANGED << engineVars, merge, schema, create, rpc, client, cmd, runner >>

ConvNext == JsonToPb \/ PbToJson

ConvSpec == ConvInit /\ [][ConvNext]_vars

Converted == conv.pc = "done"

\* Equality of JSON values that compares numbers by their numeric value,
\* whatever their variant.
RECURSIVE JsonEq(_, _)
JsonEq(x, y) ==
    /\ x.type = y.type
    /\ CASE x.type = "Number" -> x.number.v = y.number.v
         [] x.type = "Array" ->
               /\ Len(x.array) = Len(y.array)
               /\ \A n \in DOMAIN x.array : JsonEq(x.array[n], y.array[n])
         [] x.type = "Object" ->
               /\ DOMAIN x.object = DOMAIN y.object
               /\ \A k \in DOMAIN x.object : JsonEq(x.object[k], y.object[k])
         [] OTHER -> x = y

\* back is original with nothing changed but its integer numbers, each of
\* which has become the Float nearest to it.
RECURSIVE ThroughDouble(_, _)
ThroughDouble(original, back) ==
    /\ back.type = original.type
    /\ CASE original.type = "Number" ->
               /\ back.number.N = "Float"
               /\ back.number.v = NearestDouble(original.number.v)
         [] original.type = "Array" ->
               /\ Len(back.array) = Len(original.array)
               /\ \A n \in DOMAIN original.array :
                    ThroughDouble(original.array[n], back.array[n])
         [] original.type = "Object" ->
               /\ DOMAIN back.object = DOMAIN original.object
               /\ \A k \in DOMAIN original.object :
                    ThroughDouble(original.object[k], back.object[k])
         [] OTHER -> back = original

\* The numbers of a value, at any depth.
RECURSIVE NumbersOf(_)
NumbersOf(value) ==
    CASE value.type = "Number" -> {value.number}
      [] value.type = "Array" ->
            UNION { NumbersOf(value.array[n]) : n \in DOMAIN value.array }
      [] value.type = "Object" ->
            UNION { NumbersOf(value.object[k]) : k \in DOMAIN value.object }
      [] OTHER -> {}

\* C22, as stated: the round trip json_to_pb_value then pb_value_to_json
\* yields a value equal to the original for every value, numbers included
\* (numbers compared by numeric value).
C22_RoundTripIsIdentity ==
    Converted => JsonEq(conv.back, conv.json)

\* C22, amended: the round trip keeps the type, the list order and the
\* object keys at every depth and returns null, bool, string and Float
\* values unchanged; an integer number comes back as the Float nearest to
\* it, so the result is the original exactly when the value holds no
\* integer, and is numerically equal to it when every integer in it is
\* exactly representable as a double.
C22_RoundTripThroughDouble ==
    Converted =>
        /\ ThroughDouble(conv.json, conv.back)
        /\ (\A n \in NumbersOf(conv.json) : n.N = "Float") <=> conv.back = conv.json
        /\ (\A n \in NumbersOf(conv.json) : NearestDouble(n.v) = n.v)
               <=> JsonEq(conv.back, conv.json)

C22_Witness ==
    /\ Converted
    /\ conv.json.type = "Object"
    /\ DOMAIN conv.json.object = {"a", "b"}
    /\ conv.json.object["b"] = JNumber(PosInt("42"))
    /\ conv.back.object["b"] = JNumber(Float("42"))
    /\ conv.json.object["a"] = JArray(<< JString("web"), JNumber(Float("1.5")) >>)
    /\ conv.back.object["a"] = conv.json.object["a"]

(***************************************************************************)
(* Part 9: the runner (src/crates/runner/src/main.rs).  It publishes the   *)
(* provider endpoint in the environment, spawns the provider server, waits *)
(* for the provider to accept a connection and then runs the CLI.          *)
(***************************************************************************)

\* line 23: for _ in 0..50u8
MaxAttempts == 50

\* The value of LETUS_PROVIDER_AWS_ADDR when the runner starts.
EnvAddrs == { None, Some("127.0.0.1:50051"), Some("not a uri") }

\* line 11: std::env::var(..).unwrap_or_else(|_| "127.0.0.1:50051")
AddrOf(env) == IF env.some THEN env.value ELSE "127.0.0.1:50051"

\* line 12: format!("http://{}", addr)
EndpointOf(addr) == "http://" \o addr

\* One attempt too many.
ProbeAgain_OneMore(attempts) == attempts <= MaxAttempts

\* line 23: the loop makes another pass.
ProbeAgain(attempts) == attempts < MaxAttempts

RunnerInit ==
    /\ cfg = Idle /\ pc = "idle" /\ now = 0 /\ i = 0 /\ not_found_count = 0
    /\ current_delay = 0 /\ last_state = "" /\ last_resource = Idle
    /\ result = Idle /\ polls = 0 /\ obs = Idle /\ absent_run = 0
    /\ observed_state = "" /\ sleeps = <<>>
    /\ merge = Idle /\ schema = Idle /\ create = Idle
    /\ rpc = Idle /\ client = Idle /\ cmd = Idle /\ conv = Idle
    /\ \E env \in EnvAddrs :
         runner = [ pc |-> "start", env |-> env, published |-> None,
                    spawned |-> FALSE, attempts |-> 0, sleeps |-> 0,
                    connected |-> FALSE, cli_runs |-> 0, exit |-> "running" ]

\* lines 11-13: the endpoint is put in LETUS_PROVIDER_AWS_ENDPOINT.
PublishEndpoint ==
    /\ runner.pc = "start"
    /\ runner' = [ runner EXCEPT
                     !.pc = "spawn",
                     !.published = Some(EndpointOf(AddrOf(runner.env))) ]
    /\ UNCHANGED << engineVars, merge, schema, create, rpc, client, cmd, conv >>

\* lines 16-20: the provider server is spawned in the background.
SpawnProvider ==
    /\ runner.pc = "spawn"
    /\ runner' = [ runner EXCEPT !.pc = "probe", !.spawned = TRUE ]
    /\ UNCHANGED << engineVars, merge, schema, create, rpc, client, cmd, conv >>

\* line 24: Endpoint::from_shared(endpoint.clone())? fails; main returns the
\* error.
EndpointRejected ==
    /\ runner.pc = "probe"
    /\ ProbeAgain(runner.attempts)
    /\ ~from_shared(runner.published.value)
    /\ runner' = [ runner EXCEPT !.pc = "done", !.exit = "Err" ]
    /\ UNCHANGED << engineVars, merge, schema, create, rpc, client, cmd, conv >>

\* lines 24-28: connect() succeeds, and the loop is left.
ConnectSucceeds ==
    /\ runner.pc = "probe"
    /\ ProbeAgain(runner.attempts)
    /\ from_shared(runner.published.value)
    /\ runner' = [ runner EXCEPT !.pc = "cli", !.attempts = @ + 1,
                                 !.connected = TRUE ]
    /\ UNCHANGED << engineVars, merge, schema, create, rpc, client, cmd, conv >>

\* lines 24, 29-31: connect() fails, and the runner sleeps 100 ms.
ConnectFails ==
    /\ runner.pc = "probe"
    /\ ProbeAgain(runner.attempts)
    /\ from_shared(runner.published.value)
    /\ runner' = [ runner EXCEPT !.attempts = @ + 1, !.sleeps = @ + 1 ]
    /\ UNCHANGED << engineVars, merge, schema, create, rpc, client, cmd, conv >>

\* line 23: the range is exhausted.
ProbesExhausted ==
    /\ runner.pc = "probe"
    /\ ~ProbeAgain(runner.attempts)
    /\ runner' = [ runner EXCEPT !.pc = "cli" ]
    /\ UNCHANGED << engineVars, merge, schema, create, rpc, client, cmd, conv >>

\* lines 35-37: yamlet_core::run_cli().await?; Ok(())
RunCli ==
    /\ runner.pc = "cli"
    /\ \E outcome \in { "Ok", "Err" } :
         runner' = [ runner EXCEPT !.pc = "done", !.cli_runs = @ + 1,
                                   !.exit = outcome ]
    /\ UNCHANGED << engineVars, merge, schema, create, rpc, client, cmd, conv >>

RunnerNext ==
    \/ PublishEndpoint
    \/ SpawnProvider
    \/ EndpointRejected
    \/ ConnectSucceeds
    \/ ConnectFails
    \/ ProbesExhausted
    \/ RunCli

RunnerSpec == RunnerInit /\ [][RunnerNext]_vars

RunnerExited == runner.pc = "done"

\* What holds of every run: the endpoint is published before the first
\* attempt, at most MaxAttempts attempts are made, none after a success, and
\* the CLI is started at most once and only after the attempts.
RunnerOrder ==
    /\ runner.attempts <= MaxAttempts
    /\ runner.attempts > 0 =>
           runner.published = Some(EndpointOf(AddrOf(runner.env)))
    /\ runner.connected => (runner.pc \in { "cli", "done" }
                              /\ runner.sleeps = runner.attempts - 1)
    /\ ~runner.connected => runner.sleeps = runner.attempts
    /\ runner.cli_runs <= 1
    /\ runner.cli_runs = 1 =>
           (RunnerExited /\ (runner.connected \/ runner.attempts = MaxAttempts))

\* C30, as stated: the runner publishes the endpoint, makes at most 50
\* attempts and stops at the first success, and every run then starts the
\* CLI exactly once, also when no attempt succeeded.
C30_CliAlwaysStarted ==
    /\ RunnerOrder
    /\ RunnerExited => runner.cli_runs = 1

\* C30, amended: as above when the published endpoint is a well-formed URI;
\* when it is not, the first attempt fails before connecting and the runner
\* exits with that error without starting the CLI.
C30_CliStartedForValidEndpoint ==
    /\ RunnerOrder
    /\ (RunnerExited /\ from_shared(EndpointOf(AddrOf(runner.env)))) =>
           runner.cli_runs = 1
    /\ (RunnerExited /\ ~from_shared(EndpointOf(AddrOf(runner.env)))) =>
           /\ runner.cli_runs = 0
           /\ runner.attempts = 0
           /\ runner.exit = "Err"

C30_Witness ==
    /\ RunnerExited
    /\ runner.env = None
    /\ runner.attempts = MaxAttempts
    /\ ~runner.connected
    /\ runner.cli_runs = 1

====
